---- MODULE Spec2Model ----
(***************************************************************************)
(* A model of WebAgent (src/agent/agent_logic.py): the perception-         *)
(* decision-action loop WebAgent.run, the discovery parser                 *)
(* parse_and_process_response, the decision resolver decide_next_action    *)
(* and perform_action.                                                     *)
(*                                                                         *)
(* Model output is untrusted text.  A text is a sequence of characters; a  *)
(* JSON string, number or literal counts as one character, so that         *)
(* slicing (the code's [7:-3]) and json.loads work on what the text holds. *)
(* Numbers are integers.                                                   *)
(*                                                                         *)
(* Every record constructor lists its fields in the order in which the     *)
(* field names first occur in this module.  That is the order in which the *)
(* model checker keeps them, so no value is reordered while two workers    *)
(* read it.                                                                *)
(***************************************************************************)
EXTENDS Integers, Sequences, FiniteSets, TLC

(***************************************************************************)
(* JSON values as json.loads builds them.  Every value is a record of the  *)
(* same shape; k is the Python type: "null" (None), "bool", "num", "str",  *)
(* "list", "obj" (dict: keys in insertion order, items the values).        *)
(***************************************************************************)
JNull == [k |-> "null", n |-> 0, s |-> "", items |-> <<>>, keys |-> <<>>]
JBool(b) == [k |-> "bool", n |-> IF b THEN 1 ELSE 0, s |-> "", items |-> <<>>, keys |-> <<>>]
JNum(n) == [k |-> "num", n |-> n, s |-> "", items |-> <<>>, keys |-> <<>>]
JStr(s) == [k |-> "str", n |-> 0, s |-> s, items |-> <<>>, keys |-> <<>>]
JList(items) == [k |-> "list", n |-> 0, s |-> "", items |-> items, keys |-> <<>>]
JObj(keys, items) == [k |-> "obj", n |-> 0, s |-> "", items |-> items, keys |-> keys]

None == JNull

\* Python truthiness: (not x) is ~Truthy(x).
Truthy(v) ==
    CASE v.k = "null" -> FALSE
      [] v.k = "bool" -> v.n = 1
      [] v.k = "num" -> v.n # 0
      [] v.k = "str" -> v.s # ""
      [] v.k = "list" -> v.items # <<>>
      [] v.k = "obj" -> v.keys # <<>>

\* The index of key in a dict's keys, 0 when it has no such key.
KeyIndex(obj, key) ==
    IF \E i \in 1..Len(obj.keys) : obj.keys[i] = key
    THEN CHOOSE i \in 1..Len(obj.keys) : obj.keys[i] = key
    ELSE 0

HasKey(obj, key) == KeyIndex(obj, key) # 0

\* dict.get(key, default)
GetDefault(obj, key, default) ==
    IF HasKey(obj, key) THEN obj.items[KeyIndex(obj, key)] ELSE default

\* dict.get(key): None when the key is missing.
Get(obj, key) == GetDefault(obj, key, None)

\* dict[key] = val: an existing key keeps its place, a new one goes last.
Put(obj, key, val) ==
    IF HasKey(obj, key)
    THEN JObj(obj.keys, [obj.items EXCEPT ![KeyIndex(obj, key)] = val])
    ELSE JObj(Append(obj.keys, key), Append(obj.items, val))

\* Python's == on decoded JSON scalars: bool is an int (True == 1), a str
\* equals only the same str, None only None; containers compare as values.
PyEq(a, b) ==
    IF a.k \in {"bool", "num"} /\ b.k \in {"bool", "num"}
    THEN a.n = b.n
    ELSE a = b

(***************************************************************************)
(* Texts.  A character is a record c: a punctuation or letter character    *)
(* (kind ch), or a whole JSON string / number token.                       *)
(***************************************************************************)
Ch(c) == [n |-> 0, s |-> "", c |-> c]
StrTok(s) == [n |-> 0, s |-> s, c |-> "str"]
NumTok(n) == [n |-> n, s |-> "", c |-> "num"]
WS == Ch(" ")
\* A backtick.
BT == Ch("bt")
\* A form feed: white space to str.strip(), but not to json.loads.
FF == Ch("ff")

\* str.isspace(), by which str.strip() goes.
IsWS(t) == t.c \in {" ", "ff"}
\* The white space json.loads skips: space, tab, line feed, carriage return.
IsJsonWS(t) == t.c = " "

RECURSIVE LStrip(_)
LStrip(t) == IF t # <<>> /\ IsWS(Head(t)) THEN LStrip(Tail(t)) ELSE t

RECURSIVE RStrip(_)
RStrip(t) ==
    IF t # <<>> /\ IsWS(t[Len(t)]) THEN RStrip(SubSeq(t, 1, Len(t) - 1)) ELSE t

\* str.strip()
strip(t) == RStrip(LStrip(t))

\* The code-fence prefix the code recognises: three backticks and json (7 characters).
FencePrefix == <<BT, BT, BT, Ch("j"), Ch("s"), Ch("o"), Ch("n")>>
FenceSuffix == <<BT, BT, BT>>

\* str.startswith(prefix)
startswith(t, prefix) ==
    Len(t) >= Len(prefix) /\ SubSeq(t, 1, Len(prefix)) = prefix

\* t[7:-3]: drops the first 7 and the last 3 characters.
Slice7m3(t) ==
    LET stop == IF Len(t) - 3 > 0 THEN Len(t) - 3 ELSE 0
    IN  IF stop > 7 THEN SubSeq(t, 8, stop) ELSE <<>>

\* Lines 95-96 and 217-218, given response_text.strip().
CleanStripped(response_text, stripped) ==
    IF startswith(stripped, FencePrefix) THEN strip(Slice7m3(stripped))
    ELSE response_text

\* Lines 95-96 and 217-218: the markdown clean-up before json.loads.
CleanFence(response_text) == CleanStripped(response_text, strip(response_text))

(***************************************************************************)
(* json.dumps and json.loads on such texts.  A literal (null, true, false) *)
(* is one character; whitespace may stand between any two tokens.          *)
(***************************************************************************)
RECURSIVE dumps(_)
RECURSIVE DumpItems(_, _)
RECURSIVE DumpMembers(_, _)

DumpItems(v, i) ==
    IF i > Len(v.items) THEN <<>>
    ELSE (IF i > 1 THEN <<Ch(","), WS>> ELSE <<>>)
         \o dumps(v.items[i]) \o DumpItems(v, i + 1)

DumpMembers(v, i) ==
    IF i > Len(v.keys) THEN <<>>
    ELSE (IF i > 1 THEN <<Ch(","), WS>> ELSE <<>>)
         \o <<StrTok(v.keys[i]), Ch(":"), WS>> \o dumps(v.items[i])
         \o DumpMembers(v, i + 1)

dumps(v) ==
    CASE v.k = "null" -> <<Ch("null")>>
      [] v.k = "bool" -> <<Ch(IF v.n = 1 THEN "true" ELSE "false")>>
      [] v.k = "num" -> <<NumTok(v.n)>>
      [] v.k = "str" -> <<StrTok(v.s)>>
      [] v.k = "list" -> <<Ch("[")>> \o DumpItems(v, 1) \o <<Ch("]")>>
      [] v.k = "obj" -> <<Ch("{")>> \o DumpMembers(v, 1) \o <<Ch("}")>>

\* The result of a failed decode (json.JSONDecodeError).
DecodeFail == [val |-> JNull, ok |-> FALSE, next |-> 0]
Decoded(v, next) == [val |-> v, ok |-> TRUE, next |-> next]

\* The kind of the i-th token, "eof" past the end.
Tok(ts, i) == IF i <= Len(ts) THEN ts[i].c ELSE "eof"

RECURSIVE ParseValue(_, _)
RECURSIVE ParseItems(_, _, _)
RECURSIVE ParseMembers(_, _, _)

\* After an item r of a list: a comma and more items, or the closing bracket.
AfterItem(ts, acc, r) ==
    IF ~r.ok THEN DecodeFail
    ELSE CASE Tok(ts, r.next) = "," ->
                  ParseItems(ts, r.next + 1, Append(acc, r.val))
           [] Tok(ts, r.next) = "]" ->
                  Decoded(JList(Append(acc, r.val)), r.next + 1)
           [] OTHER -> DecodeFail

ParseItems(ts, i, acc) == AfterItem(ts, acc, ParseValue(ts, i))

\* After a member key: r of a dict: a comma and more members, or the closing
\* brace.  A repeated key keeps its last value, as Python's dict does.
AfterMember(ts, obj, key, r) ==
    IF ~r.ok THEN DecodeFail
    ELSE CASE Tok(ts, r.next) = "," ->
                  ParseMembers(ts, r.next + 1, Put(obj, key, r.val))
           [] Tok(ts, r.next) = "}" ->
                  Decoded(Put(obj, key, r.val), r.next + 1)
           [] OTHER -> DecodeFail

ParseMembers(ts, i, obj) ==
    IF Tok(ts, i) # "str" \/ Tok(ts, i + 1) # ":" THEN DecodeFail
    ELSE AfterMember(ts, obj, ts[i].s, ParseValue(ts, i + 2))

ParseValue(ts, i) ==
    CASE Tok(ts, i) = "null" -> Decoded(JNull, i + 1)
      [] Tok(ts, i) = "true" -> Decoded(JBool(TRUE), i + 1)
      [] Tok(ts, i) = "false" -> Decoded(JBool(FALSE), i + 1)
      [] Tok(ts, i) = "num" -> Decoded(JNum(ts[i].n), i + 1)
      [] Tok(ts, i) = "str" -> Decoded(JStr(ts[i].s), i + 1)
      [] Tok(ts, i) = "[" ->
             IF Tok(ts, i + 1) = "]" THEN Decoded(JList(<<>>), i + 2)
             ELSE ParseItems(ts, i + 1, <<>>)
      [] Tok(ts, i) = "{" ->
             IF Tok(ts, i + 1) = "}" THEN Decoded(JObj(<<>>, <<>>), i + 2)
             ELSE ParseMembers(ts, i + 1, JObj(<<>>, <<>>))
      [] OTHER -> DecodeFail

NotWS(t) == ~IsJsonWS(t)

\* The whole text must be one value.
WholeText(ts, r) == IF r.ok /\ r.next = Len(ts) + 1 THEN r ELSE DecodeFail

\* json.loads of a text without its whitespace.
LoadTokens(ts) == WholeText(ts, ParseValue(ts, 1))

\* json.loads(text): one JSON value and nothing else, or a decode failure.
loads(text) == LoadTokens(SelectSeq(text, NotWS))

(***************************************************************************)
(* Python float arithmetic (IEEE 754 binary64, round to nearest, ties to   *)
(* even) for the expression int((norm / 1000) * screen_dim) of lines       *)
(* 108-111.  A float is zero or sign * m * 2^e with m a sequence of 53     *)
(* bits, most significant first, the first of them 1.  Long numbers are    *)
(* worked on nine bits (one base-512 digit) at a time.                     *)
(***************************************************************************)
MantBits == 53
DigitBits == 9

RECURSIVE Pow2(_)
Pow2(z) ==
    IF z = 0 THEN 1
    ELSE IF z % 2 = 0 THEN Pow2(z \div 2) * Pow2(z \div 2)
         ELSE 2 * Pow2(z - 1)

DigitBase == Pow2(DigitBits)

RECURSIVE BitsToInt(_)
BitsToInt(bits) ==
    IF bits = <<>> THEN 0
    ELSE IF Len(bits) = 1 THEN bits[1]
         ELSE LET h == Len(bits) \div 2
              IN  BitsToInt(SubSeq(bits, 1, h)) * Pow2(Len(bits) - h)
                  + BitsToInt(SubSeq(bits, h + 1, Len(bits)))

\* The bits of a sequence of base-512 digits.
DigitsToBits(ds) ==
    [j \in 1..(DigitBits * Len(ds)) |->
        (ds[((j - 1) \div DigitBits) + 1]
            \div Pow2(DigitBits - 1 - ((j - 1) % DigitBits))) % 2]

\* The base-512 digits of a sequence of bits, zeros added in front.
BitsToDigits(bits) ==
    LET nd == (Len(bits) + DigitBits - 1) \div DigitBits
        pad == nd * DigitBits - Len(bits)
        padded == [j \in 1..(nd * DigitBits) |->
                      IF j <= pad THEN 0 ELSE bits[j - pad]]
    IN  [d \in 1..nd |->
            BitsToInt(SubSeq(padded, (d - 1) * DigitBits + 1, d * DigitBits))]

\* bits without the zeros in front.
StripZeros(bits) ==
    IF \A i \in 1..Len(bits) : bits[i] = 0 THEN <<>>
    ELSE LET first == CHOOSE i \in 1..Len(bits) :
                          bits[i] = 1 /\ \A j \in 1..(i - 1) : bits[j] = 0
         IN  SubSeq(bits, first, Len(bits))

\* The binary digits of a natural number, none for 0.
IntBits(x) ==
    StripZeros(DigitsToBits(<<x \div (DigitBase * DigitBase * DigitBase),
                              (x \div (DigitBase * DigitBase)) % DigitBase,
                              (x \div DigitBase) % DigitBase,
                              x % DigitBase>>))

RECURSIVE FracDigits(_, _, _)
\* The next count base-512 digits of r / den (r < den), and what remains.
FracDigits(r, den, count) ==
    IF count = 0 THEN [digits |-> <<>>, rem |-> r]
    ELSE LET rest == FracDigits((r * DigitBase) % den, den, count - 1)
         IN  [digits |-> <<(r * DigitBase) \div den>> \o rest.digits,
              rem |-> rest.rem]

RECURSIVE LeadingZeros(_, _)
\* How many zeros the binary fraction r / den (0 < r < den) starts with.
LeadingZeros(r, den) ==
    IF 2 * r >= den THEN 0 ELSE 1 + LeadingZeros(2 * r, den)

\* bits + 1; one digit longer when every digit was 1.
IncBits(bits) ==
    IF \A i \in 1..Len(bits) : bits[i] = 1
    THEN <<1>> \o [i \in 1..Len(bits) |-> 0]
    ELSE LET last0 == CHOOSE i \in 1..Len(bits) :
                          bits[i] = 0 /\ \A j \in (i + 1)..Len(bits) : bits[j] = 1
         IN  [i \in 1..Len(bits) |->
                 IF i < last0 THEN bits[i] ELSE IF i = last0 THEN 1 ELSE 0]

\* m1 cut back to 53 digits when rounding up made it longer; n digits were
\* given, so n - 53 are given up, and one more when m1 was cut.
Renormalised(m1, n) ==
    IF Len(m1) > MantBits
    THEN [m |-> SubSeq(m1, 1, MantBits), drop |-> n - MantBits + 1]
    ELSE [m |-> m1, drop |-> n - MantBits]

\* Round a significand of at least 53 digits (first digit 1) to 53 digits,
\* ties to even; sticky says that non-zero digits follow those given.
\* drop is the number of low digits given up.
RoundToMant(bits, sticky) ==
    IF /\ Len(bits) > MantBits
       /\ bits[MantBits + 1] = 1
       /\ \/ sticky
          \/ \E j \in (MantBits + 2)..Len(bits) : bits[j] = 1
          \/ bits[MantBits] = 1
    THEN Renormalised(IncBits(SubSeq(bits, 1, MantBits)), Len(bits))
    ELSE Renormalised(SubSeq(bits, 1, MantBits), Len(bits))

FloatZero == [m |-> <<>>, zero |-> TRUE, neg |-> FALSE, e |-> 0]

Abs(x) == IF x < 0 THEN -x ELSE x

\* The float of significand rd.m, rounded from a number scaled by 2^e.
Rounded(neg, rd, e) == [m |-> rd.m, zero |-> FALSE, neg |-> neg, e |-> e + rd.drop]

\* The quotient from its integer bits ib and fraction digits fd, which
\* start z binary places after the point.
DivDigits(neg, ib, z, fd) ==
    Rounded(neg, RoundToMant(ib \o DigitsToBits(fd.digits), fd.rem # 0),
            0 - (z + DigitBits * Len(fd.digits)))

DivShift(neg, ib, r, z) == DivDigits(neg, ib, z, FracDigits(r * Pow2(z), 1000, 7))

DivFrom(neg, ib, r) ==
    DivShift(neg, ib, r, IF ib = <<>> THEN LeadingZeros(r, 1000) ELSE 0)

\* norm / 1000: true division of an int by 1000, correctly rounded.
TrueDiv1000(norm) ==
    IF norm = 0 THEN FloatZero
    ELSE DivFrom(norm < 0, IntBits(Abs(norm) \div 1000), Abs(norm) % 1000)

RECURSIVE MulDigits(_, _, _)
\* digits * d + carry, in base 512.
MulDigits(ds, d, carry) ==
    IF ds = <<>> THEN BitsToDigits(IntBits(carry))
    ELSE MulDigits(SubSeq(ds, 1, Len(ds) - 1), d,
                   (ds[Len(ds)] * d + carry) \div DigitBase)
         \o <<(ds[Len(ds)] * d + carry) % DigitBase>>

\* bits * d, in binary.
MulBits(bits, d) == StripZeros(DigitsToBits(MulDigits(BitsToDigits(bits), d, 0)))

\* x * dim for a float x and a positive int dim, correctly rounded.
FloatMul(x, dim) ==
    IF x.zero THEN FloatZero
    ELSE Rounded(x.neg, RoundToMant(MulBits(x.m, dim), FALSE), x.e)

\* The integer part of m * 2^e.
Magnitude(m, e) ==
    IF e >= 0 THEN BitsToInt(m \o [j \in 1..e |-> 0])
    ELSE BitsToInt(SubSeq(m, 1, IF MantBits + e > 0 THEN MantBits + e ELSE 0))

\* int(x): truncation towards zero.
FloatToInt(x) ==
    IF x.zero THEN 0
    ELSE IF x.neg THEN 0 - Magnitude(x.m, x.e) ELSE Magnitude(x.m, x.e)

\* Lines 108-111: int((norm / 1000) * screen_dim).
ToPixel(norm, screen_dim) == FloatToInt(FloatMul(TrueDiv1000(norm), screen_dim))

(***************************************************************************)
(* What a call does: it returns val, or raises exc ("" when it returns).   *)
(* Only json.JSONDecodeError and KeyError are caught (lines 116, 233); an  *)
(* AttributeError or a TypeError leaves the function.                      *)
(***************************************************************************)
Returns(v) == [val |-> v, exc |-> ""]
Raises(e) == [val |-> None, exc |-> e]

\* for x in v: the items Python iterates over, or the TypeError of a value
\* that is not iterable.  A str yields one-character strs, a dict its keys.
Iterate(v) ==
    CASE v.k = "list" -> Returns(v.items)
      [] v.k = "str" -> Returns([i \in 1..Len(v.s) |-> JStr("c")])
      [] v.k = "obj" -> Returns([i \in 1..Len(v.keys) |-> JStr(v.keys[i])])
      [] OTHER -> Raises("TypeError")

\* len(v), or the TypeError of a value that has no length.
PyLen(v) ==
    CASE v.k = "list" -> Returns(Len(v.items))
      [] v.k = "str" -> Returns(Len(v.s))
      [] v.k = "obj" -> Returns(Len(v.keys))
      [] OTHER -> Raises("TypeError")

\* v / 1000 is defined for int, float and bool only.
IsNumber(v) == v.k \in {"num", "bool"}

\* Lines 107-113: the four items b of the box, unpacked and converted.
WithPixelBox(element, b, screen_width, screen_height) ==
    IF \E j \in 1..4 : ~IsNumber(b[j]) THEN Raises("TypeError")
    ELSE Returns(Put(element, "pixel_box",
             JList([j \in 1..4 |->
                 JNum(ToPixel(b[j].n, IF j % 2 = 1 THEN screen_width
                                                    ELSE screen_height))])))

\* Line 105 on, given len(box) or what it raised.
ConvertSized(element, box, length, screen_width, screen_height) ==
    IF length.exc # "" THEN length
    ELSE IF length.val # 4 THEN Returns(element)
    ELSE WithPixelBox(element, Iterate(box).val, screen_width, screen_height)

\* Line 105: "if box and len(box) == 4".
ConvertBox(element, box, screen_width, screen_height) ==
    IF ~Truthy(box) THEN Returns(element)
    ELSE ConvertSized(element, box, PyLen(box), screen_width, screen_height)

\* Lines 104-113: one pass of the loop body on one element.
ConvertElement(element, screen_width, screen_height) ==
    IF element.k # "obj" THEN Raises("AttributeError")
    ELSE ConvertBox(element, Get(element, "box_2d"), screen_width, screen_height)

RECURSIVE ConvertAll(_, _, _, _)

\* A faulty loop, which drops an element whose type the agent cannot act on;
\* the round-trip claim must tell it from ConvertNext.
ConvertNextKnown(items, i, r, screen_width, screen_height) ==
    IF r.exc # "" THEN r
    ELSE IF Get(r.val, "type") \in {JStr("button"), JStr("link"), JStr("input")}
         THEN ConvertAll([items EXCEPT ![i] = r.val], i + 1,
                         screen_width, screen_height)
         ELSE ConvertAll([j \in 1..(Len(items) - 1) |->
                             IF j < i THEN items[j] ELSE items[j + 1]],
                         i, screen_width, screen_height)

\* The loop goes on with the i-th element replaced by r, or r's exception ends it.
ConvertNext(items, i, r, screen_width, screen_height) ==
    IF r.exc # "" THEN r
    ELSE ConvertAll([items EXCEPT ![i] = r.val], i + 1, screen_width, screen_height)

\* Lines 103-113: the loop over the elements, from the i-th on.
ConvertAll(items, i, screen_width, screen_height) ==
    IF i > Len(items) THEN Returns(JList(items))
    ELSE ConvertNext(items, i,
                     ConvertElement(items[i], screen_width, screen_height),
                     screen_width, screen_height)

\* Lines 103-115, given what iterating over elements yields.
ConvertIterated(elements, it, screen_size) ==
    IF it.exc # "" THEN it
    ELSE IF elements.k = "list"
         THEN ConvertAll(elements.items, 1, screen_size[1], screen_size[2])
         ELSE IF it.val = <<>> THEN Returns(elements)
              ELSE Raises("AttributeError")

\* Lines 99-115, given the decoded data.
ProcessData(data, screen_size) ==
    IF data.k # "obj" THEN Raises("AttributeError")
    ELSE ConvertIterated(GetDefault(data, "elements", JList(<<>>)),
                         Iterate(GetDefault(data, "elements", JList(<<>>))),
                         screen_size)

\* Lines 98-119, given what json.loads did.
ProcessDecoded(d, screen_size) ==
    IF ~d.ok THEN Returns(JList(<<>>)) ELSE ProcessData(d.val, screen_size)

\* Lines 88-119.  Returns the elements (the decoded value, its dicts given a
\* pixel_box) or [] on a decode failure; raises what is not caught.
parse_and_process_response(response_text, screen_size) ==
    ProcessDecoded(loads(CleanFence(response_text)), screen_size)

(***************************************************************************)
(* decide_next_action.  A model reply is a text or nothing at all (None).  *)
(***************************************************************************)
NoResponse == [text |-> <<>>, some |-> FALSE]
Response(t) == [text |-> t, some |-> TRUE]

\* The two reasons decide_next_action makes up itself (lines 222, 231).
ObjectiveAchieved == JStr("Objective achieved.")
CouldNotFind == JStr("Could not find the chosen element.")

\* A return value (element, thought) of decide_next_action.
Pair(element, thought) == [exc |-> "", element |-> element, thought |-> thought]
PairRaises(e) == [exc |-> e, element |-> None, thought |-> None]

RECURSIVE FindElementOrFirst(_, _, _, _)
\* A faulty lookup, which falls back on the first element of the list when no
\* label matches; the claim about unresolvable labels must tell it from
\* FindElement.
FindElementOrFirst(items, i, chosen_label, thought) ==
    IF i > Len(items) THEN Pair(items[1], thought)
    ELSE IF items[i].k # "obj" THEN PairRaises("AttributeError")
    ELSE IF PyEq(Get(items[i], "label"), chosen_label)
         THEN Pair(items[i], thought)
         ELSE FindElementOrFirst(items, i + 1, chosen_label, thought)

\* A faulty lookup, which keeps looking after a match and so returns the last
\* element with the label; the first-match claim must tell it from FindElement.
FindElementLast(items, i, chosen_label, thought) ==
    IF \E j \in i..Len(items) : items[j].k # "obj"
    THEN PairRaises("AttributeError")
    ELSE IF \A j \in i..Len(items) : ~PyEq(Get(items[j], "label"), chosen_label)
         THEN Pair(None, CouldNotFind)
         ELSE Pair(items[CHOOSE j \in i..Len(items) :
                       /\ PyEq(Get(items[j], "label"), chosen_label)
                       /\ \A m \in (j + 1)..Len(items) :
                              ~PyEq(Get(items[m], "label"), chosen_label)],
                   thought)

RECURSIVE FindElement(_, _, _, _)
\* Lines 227-231: the first element whose label equals the chosen label.
FindElement(items, i, chosen_label, thought) ==
    IF i > Len(items) THEN Pair(None, CouldNotFind)
    ELSE IF items[i].k # "obj" THEN PairRaises("AttributeError")
    ELSE IF PyEq(Get(items[i], "label"), chosen_label)
         THEN Pair(items[i], thought)
         ELSE FindElement(items, i + 1, chosen_label, thought)

\* Lines 227-231, given what iterating over interactive_elements yields.
FindIn(it, decision_data) ==
    IF it.exc # "" THEN PairRaises(it.exc)
    ELSE FindElement(it.val, 1, Get(decision_data, "chosen_element_label"),
                     Get(decision_data, "thought"))

\* Lines 221-231, given the decoded decision.
Resolve(decision_data, interactive_elements) ==
    IF ~Truthy(decision_data) THEN Pair(None, ObjectiveAchieved)
    ELSE IF decision_data.k # "obj" THEN PairRaises("AttributeError")
    ELSE FindIn(Iterate(interactive_elements), decision_data)

\* Lines 220-236, given what json.loads did.
ResolveDecoded(d, interactive_elements) ==
    IF ~d.ok THEN Pair(None, None) ELSE Resolve(d.val, interactive_elements)

\* Lines 207-236, given the reply of ask_gemini_text_only.
decide_next_action(response, interactive_elements) ==
    IF ~response.some \/ response.text = <<>> THEN Pair(None, None)
    ELSE ResolveDecoded(loads(CleanFence(response.text)), interactive_elements)

(***************************************************************************)
(* perform_action, the prompts and the history entries.                    *)
(***************************************************************************)
\* An input or output of the agent, in the order it happens.
Event(op, x, y) == [x |-> x, op |-> op, y |-> y]
Click(x, y) == Event("click", x, y)
Typewrite == Event("typewrite", 0, 0)
Sleep(seconds) == Event("sleep", seconds, 0)

Did(exc, events) == [exc |-> exc, events |-> events]

\* pixel_box[a] + pixel_box[b] of lines 131-132: the sum, or what it raises.
BoxSum(pixel_box, a, b) ==
    CASE pixel_box.k = "obj" -> Raises("KeyError")
      [] pixel_box.k \in {"null", "bool", "num"} -> Raises("TypeError")
      [] pixel_box.k = "str" ->
             IF Len(pixel_box.s) < b THEN Raises("IndexError")
             ELSE Raises("TypeError")
      [] pixel_box.k = "list" ->
             IF Len(pixel_box.items) < b THEN Raises("IndexError")
             ELSE IF IsNumber(pixel_box.items[a]) /\ IsNumber(pixel_box.items[b])
                  THEN Returns(pixel_box.items[a].n + pixel_box.items[b].n)
                  ELSE Raises("TypeError")

\* Lines 134-150, given the sums sx and sy of lines 131-132.
ActOnType(element_type, sx, sy, text_to_type) ==
    IF sx.exc # "" THEN Did(sx.exc, <<>>)
    ELSE IF sy.exc # "" THEN Did(sy.exc, <<>>)
    ELSE IF PyEq(element_type, JStr("button")) \/ PyEq(element_type, JStr("link"))
         THEN Did("", <<Click(sx.val \div 2, sy.val \div 2)>>)
    ELSE IF PyEq(element_type, JStr("input"))
         THEN Did("", <<Click(sx.val \div 2, sy.val \div 2)>>
                      \o (IF text_to_type # "" THEN <<Typewrite>> ELSE <<>>))
    ELSE Did("", <<>>)

\* A faulty perform_action, which takes the wrong two items of the box for
\* each centre; the claim that the click lies inside the box must tell it from
\* perform_action.
perform_action_mixed(element, text_to_type) ==
    IF ~HasKey(element, "pixel_box") THEN Did("", <<>>)
    ELSE ActOnType(Get(element, "type"),
                   BoxSum(Get(element, "pixel_box"), 1, 2),
                   BoxSum(Get(element, "pixel_box"), 3, 4),
                   text_to_type)

\* Lines 121-150: the clicks and keystrokes issued for element.
perform_action(element, text_to_type) ==
    IF ~HasKey(element, "pixel_box") THEN Did("", <<>>)
    ELSE ActOnType(Get(element, "type"),
                   BoxSum(Get(element, "pixel_box"), 1, 3),
                   BoxSum(Get(element, "pixel_box"), 2, 4),
                   text_to_type)

\* One string of self.history.
Entry(kind, iter, thought, label, text) ==
    [text |-> text, thought |-> thought, kind |-> kind, iter |-> iter, label |-> label]

\* Line 247: "User's objective: {user_prompt}".
ObjectiveEntry(user_prompt) == Entry("objective", 0, None, None, user_prompt)

\* Line 299: the text typed into an input.
Placeholder == "hello world"

\* Lines 296-299.
TextToType(chosen_element) ==
    IF PyEq(Get(chosen_element, "type"), JStr("input")) THEN Placeholder ELSE ""

\* Lines 294-302: "Iteration {i+1}: Thought: {thought} Action: ...".
HistoryEntry(iter, thought, chosen_element) ==
    IF PyEq(Get(chosen_element, "type"), JStr("input"))
    THEN Entry("Typing", iter, thought, Get(chosen_element, "label"), Placeholder)
    ELSE Entry("Clicking", iter, thought, Get(chosen_element, "label"), "")

\* The line break between two entries in "\n".join(self.history).
NewLine == Entry("\n", 0, None, None, "")

\* "\n".join(history)
Join(history) ==
    [j \in 1..(2 * Len(history) - 1) |->
        IF j % 2 = 1 THEN history[(j + 1) \div 2] ELSE NewLine]

NoPrompt == [elements |-> None, objective |-> NewLine, history_str |-> <<>>,
             resolution |-> <<0, 0>>]

\* Lines 156-173: the discovery prompt (called with a non-empty history).
construct_prompt(history, screen_width, screen_height) ==
    [elements |-> None, objective |-> history[1], history_str |-> Join(history),
     resolution |-> <<screen_width, screen_height>>]

\* Lines 179-205: the decision prompt.
DecisionPrompt(history, interactive_elements) ==
    [elements |-> interactive_elements, objective |-> history[1],
     history_str |-> Join(history), resolution |-> <<0, 0>>]

(***************************************************************************)
(* The replies the model may give.  Any text is possible; these are one of *)
(* each shape the code tells apart.                                        *)
(***************************************************************************)
Box(b) == JList(<<JNum(b[1]), JNum(b[2]), JNum(b[3]), JNum(b[4])>>)
Element(label, type, box_2d) ==
    JObj(<<"label", "type", "box_2d">>, <<JStr(label), JStr(type), box_2d>>)
Elements(items) == JObj(<<"elements">>, <<JList(items)>>)
Decision(thought, label) ==
    JObj(<<"thought", "chosen_element_label">>, <<JStr(thought), label>>)

\* The text wrapped in a markdown code fence.
Fenced(t) == <<WS>> \o FencePrefix \o <<WS>> \o t \o <<WS>> \o FenceSuffix \o <<WS>>

\* The malformed reply of test_parse_and_process_response_malformed_json.
Malformed ==
    <<Ch("{"), StrTok("elements"), Ch(":"), WS, Ch("["), WS, StrTok("label"),
      Ch(":"), WS, StrTok("bad json"), WS, Ch("}")>>

ElemA == Element("A", "button", Box(<<100, 200, 300, 400>>))
ElemB == Element("B", "input", Box(<<0, 175, 290, 580>>))
ElemA2 == Element("A", "link", Box(<<500, 500, 600, 600>>))
ElemC == Element("C", "checkbox", Box(<<10, 10, 20, 20>>))
ElemD == JObj(<<"label", "type">>, <<JStr("D"), JStr("link")>>)
ElemE == JObj(<<>>, <<>>)
ElemP == JObj(<<"label", "type", "pixel_box">>,
              <<JStr("P"), JStr("button"), JList(<<JNum(7)>>)>>)

\* The replies to the discovery prompt that the loop is run on.
DiscoveryReplies ==
    {NoResponse, Response(<<>>), Response(Malformed),
     Response(dumps(Elements(<<ElemA, ElemB, ElemA2>>))),
     Response(Fenced(dumps(Elements(<<ElemC, ElemD, ElemE, ElemP>>)))),
     Response(dumps(Elements(<<>>))),
     Response(dumps(JList(<<JNum(1)>>)))}

\* The replies to the decision prompt that the loop is run on.
DecisionReplies ==
    {NoResponse, Response(Malformed),
     Response(dumps(JObj(<<>>, <<>>))),
     Response(dumps(JNum(0))),
     Response(dumps(JList(<<JNum(1)>>))),
     Response(dumps(JObj(<<"thought">>, <<JStr("t")>>))),
     Response(Fenced(dumps(Decision("t", JStr("A")))))}
    \cup {Response(dumps(Decision("t", JStr(l)))) : l \in {"B", "C", "D", "P", "Z"}}

\* What pyautogui.size() may report.
Screens == {<<2000, 1000>>, <<2560, 1440>>}

\* The objectives a caller may pass to run.
Objectives == {"goal 1", "goal 2"}

(***************************************************************************)
(* WebAgent.run as a state machine.                                        *)
(***************************************************************************)
\* The largest iteration budget: line 24 sets max_iterations to 10, and a
\* caller may assign the attribute; the model runs every budget up to this.
MaxBudget == 2
\* run is not called again on an agent whose history is this long.
MaxHistory == 2

VARIABLES
    history,              \* self.history
    max_iterations,       \* self.max_iterations
    screenshot,           \* self.screenshot: "None", "image" or "empty"
    screen,               \* what pyautogui.size() reports on this machine
    pc,                   \* where run stands
    i,                    \* the iteration number i+1 of the for loop
    user_prompt,          \* run's argument
    screen_size,          \* run's screen_width, screen_height
    prompt,               \* run's prompt (the discovery prompt)
    gemini_response,      \* run's gemini_response
    interactive_elements, \* run's interactive_elements
    dprompt,              \* decide_next_action's prompt
    response_text,        \* decide_next_action's response_text
    chosen_element,       \* run's chosen_element
    thought,              \* run's thought
    exit,                 \* the message run printed last, or what it raised
    events,               \* the inputs and outputs of the current iteration
    captures,             \* screenshots taken in this run
    acted,                \* calls of perform_action in this run
    resolved_all,         \* every iteration so far got an element resolved
    iter_history,         \* self.history when the iteration began
    args,                 \* the arguments of a direct call
    ret                   \* what the direct call returned or raised

agent == <<history, max_iterations, screenshot>>
locals == <<i, user_prompt, screen_size, prompt, gemini_response,
            interactive_elements, dprompt, response_text, chosen_element, thought>>
ghost == <<events, captures, acted, resolved_all, iter_history>>
direct == <<args, ret>>
vars == <<agent, screen, pc, locals, exit, ghost, direct>>

\* The messages run prints before it returns.
MsgNoScreenshot == "Agent run failed: Could not prepare screenshot."
MsgNoResponse == "Did not receive a response from Gemini. Aborting."
MsgNoElements == "Could not identify any interactive elements from the response. Ending run."
MsgNoDecision == "Gemini could not decide on an action. Ending run."
MsgMaxIterations == "Maximum iterations reached. Ending agent run."

NoArgs == [text |-> <<>>, elements |-> None, screen_size |-> <<0, 0>>,
           response |-> NoResponse]
NoRet == Pair(None, None)

\* Lines 22-24, and the locals of a run not yet begun.
InitAgent ==
    /\ history = <<>>
    /\ max_iterations \in 1..MaxBudget
    /\ screenshot = "None"
    /\ i = 0
    /\ user_prompt = ""
    /\ screen_size = <<0, 0>>
    /\ prompt = NoPrompt
    /\ gemini_response = NoResponse
    /\ interactive_elements = None
    /\ dprompt = NoPrompt
    /\ response_text = NoResponse
    /\ chosen_element = None
    /\ thought = None
    /\ exit = ""
    /\ events = <<>>
    /\ captures = 0
    /\ acted = 0
    /\ resolved_all = TRUE
    /\ iter_history = <<>>

Init ==
    /\ InitAgent
    /\ screen \in Screens
    /\ pc = "idle"
    /\ args = NoArgs
    /\ ret = NoRet

\* run has returned, or an exception has left it.
Ended == pc \in {"returned", "raised"}

\* A faulty start of run, which begins a fresh history; the claim that history
\* is only appended to must tell it from RecordObjective.
RecordObjectiveFresh(h, p) == <<ObjectiveEntry(p)>>

\* Line 247: the objective joins self.history.
RecordObjective(h, p) == Append(h, ObjectiveEntry(p))

\* Lines 238-247: run(user_prompt) is called on an agent that is not running.
Run(p) ==
    /\ pc = "idle" \/ Ended
    /\ Len(history) < MaxHistory
    /\ history' = RecordObjective(history, p)
    /\ user_prompt' = p
    /\ i' = 0
    /\ screen_size' = <<0, 0>>
    /\ prompt' = NoPrompt
    /\ gemini_response' = NoResponse
    /\ interactive_elements' = None
    /\ dprompt' = NoPrompt
    /\ response_text' = NoResponse
    /\ chosen_element' = None
    /\ thought' = None
    /\ exit' = ""
    /\ events' = <<Sleep(5)>>
    /\ captures' = 0
    /\ acted' = 0
    /\ resolved_all' = TRUE
    /\ iter_history' = history'
    /\ pc' = "loop"
    /\ UNCHANGED <<max_iterations, screenshot, screen, direct>>

\* Line 249: range(self.max_iterations) has another number to give.
HasNext(iter, budget) == iter < budget

\* What pyautogui.screenshot() may hand back: an image; an object that is
\* falsy, e.g. a test double; or None, on which .save (line 33) raises.
Captures == {"image", "empty", "None"}

\* Lines 249-253: the next iteration begins and takes its screenshot.
TakeScreenshot(img) ==
    /\ pc = "loop"
    /\ HasNext(i, max_iterations)
    /\ i' = i + 1
    /\ screenshot' = img
    /\ events' = <<Event("screenshot", 0, 0)>>
    /\ captures' = captures + 1
    /\ resolved_all' = (resolved_all /\ img = "image")
    /\ iter_history' = history
    /\ IF img = "None"
       THEN /\ exit' = "AttributeError"
            /\ pc' = "raised"
       ELSE /\ pc' = "captured"
            /\ UNCHANGED exit
    /\ UNCHANGED <<history, max_iterations, user_prompt, screen_size, prompt,
                   gemini_response, interactive_elements, dprompt,
                   response_text, chosen_element, thought, acted, screen, direct>>

\* Line 314: the loop is over.
Exhausted ==
    /\ pc = "loop"
    /\ ~HasNext(i, max_iterations)
    /\ exit' = MsgMaxIterations
    /\ pc' = "returned"
    /\ UNCHANGED <<agent, screen, locals, ghost, direct>>

\* Lines 256-259: no screenshot to convert.
NoScreenshot ==
    /\ pc = "captured"
    /\ screenshot = "empty"
    /\ exit' = MsgNoScreenshot
    /\ pc' = "returned"
    /\ UNCHANGED <<agent, screen, locals, ghost, direct>>

\* Lines 262-280: the discovery prompt is built and sent with the image.
Discover(reply) ==
    /\ pc = "captured"
    /\ screenshot = "image"
    /\ screen_size' = screen
    /\ prompt' = construct_prompt(history, screen[1], screen[2])
    /\ gemini_response' = reply
    /\ events' = Append(events, Event("ask_gemini_about_image", 0, 0))
    /\ IF ~reply.some \/ reply.text = <<>>
       THEN /\ exit' = MsgNoResponse
            /\ resolved_all' = FALSE
            /\ pc' = "returned"
       ELSE /\ pc' = "asked"
            /\ UNCHANGED <<exit, resolved_all>>
    /\ UNCHANGED <<agent, screen, i, user_prompt, interactive_elements, dprompt,
                   response_text, chosen_element, thought, captures, acted,
                   iter_history, direct>>

\* A faulty step, which keeps the elements of the first iteration for the
\* whole run; the claim that an iteration decides and acts on its own elements
\* must tell it from Parsed.
ParsedOnce(r) ==
    IF r.exc # ""
    THEN /\ exit' = r.exc
         /\ pc' = "raised"
         /\ resolved_all' = FALSE
         /\ UNCHANGED interactive_elements
    ELSE /\ interactive_elements' =
                IF Truthy(interactive_elements) THEN interactive_elements
                ELSE r.val
         /\ IF ~Truthy(r.val)
            THEN /\ exit' = MsgNoElements
                 /\ pc' = "returned"
                 /\ resolved_all' = FALSE
            ELSE /\ pc' = "parsed"
                 /\ UNCHANGED <<exit, resolved_all>>

\* Lines 283-287, given what parse_and_process_response did.
Parsed(r) ==
    IF r.exc # ""
    THEN /\ exit' = r.exc
         /\ pc' = "raised"
         /\ resolved_all' = FALSE
         /\ UNCHANGED interactive_elements
    ELSE /\ interactive_elements' = r.val
         /\ IF ~Truthy(r.val)
            THEN /\ exit' = MsgNoElements
                 /\ pc' = "returned"
                 /\ resolved_all' = FALSE
            ELSE /\ pc' = "parsed"
                 /\ UNCHANGED <<exit, resolved_all>>

\* Lines 283-287: the reply is parsed.
Parse ==
    /\ pc = "asked"
    /\ Parsed(parse_and_process_response(gemini_response.text, screen_size))
    /\ events' = Append(events, Event("parse_and_process_response", 0, 0))
    /\ UNCHANGED <<agent, screen, i, user_prompt, screen_size, prompt,
                   gemini_response, dprompt, response_text, chosen_element,
                   thought, captures, acted, iter_history, direct>>

\* Line 290, given what decide_next_action did.
Decided(r) ==
    IF r.exc # ""
    THEN /\ exit' = r.exc
         /\ pc' = "raised"
         /\ resolved_all' = FALSE
         /\ UNCHANGED <<chosen_element, thought>>
    ELSE /\ chosen_element' = r.element
         /\ thought' = r.thought
         /\ resolved_all' = (resolved_all /\ r.element # None)
         /\ pc' = "decided"
         /\ UNCHANGED exit

\* Line 290: decide_next_action asks the model and resolves its reply.
Decide(reply) ==
    /\ pc = "parsed"
    /\ dprompt' = DecisionPrompt(history, interactive_elements)
    /\ response_text' = reply
    /\ events' = Append(events, Event("ask_gemini_text_only", 0, 0))
    /\ Decided(decide_next_action(reply, interactive_elements))
    /\ UNCHANGED <<agent, screen, i, user_prompt, screen_size, prompt,
                   gemini_response, interactive_elements, captures, acted,
                   iter_history, direct>>

\* Line 304: the entry joins self.history.
RecordAction(h, entry) == Append(h, entry)

\* A faulty end of the iteration, which goes on to the next capture without
\* the pause of line 309; the claim about the order of an iteration must tell
\* it from Performed.
PerformedNoPause(r) ==
    IF r.exc # ""
    THEN /\ events' = events \o r.events
         /\ exit' = r.exc
         /\ pc' = "raised"
    ELSE /\ events' = events \o r.events
         /\ pc' = "loop"
         /\ UNCHANGED exit

\* Lines 306-309, given what perform_action did.
Performed(r) ==
    IF r.exc # ""
    THEN /\ events' = events \o r.events
         /\ exit' = r.exc
         /\ pc' = "raised"
    ELSE /\ events' = events \o r.events \o <<Sleep(2)>>
         /\ pc' = "loop"
         /\ UNCHANGED exit

\* Lines 292-309: the action is recorded and performed, then a pause.
Act ==
    /\ pc = "decided"
    /\ Truthy(chosen_element)
    /\ history' = RecordAction(history, HistoryEntry(i, thought, chosen_element))
    /\ acted' = acted + 1
    /\ Performed(perform_action(chosen_element, TextToType(chosen_element)))
    /\ UNCHANGED <<max_iterations, screenshot, screen, locals, captures,
                   resolved_all, iter_history, direct>>

\* Lines 310-312: no element to act on.
GiveUp ==
    /\ pc = "decided"
    /\ ~Truthy(chosen_element)
    /\ exit' = MsgNoDecision
    /\ pc' = "returned"
    /\ UNCHANGED <<agent, screen, locals, ghost, direct>>

Next ==
    \/ \E p \in Objectives : Run(p)
    \/ \E img \in Captures : TakeScreenshot(img)
    \/ Exhausted
    \/ NoScreenshot
    \/ \E reply \in DiscoveryReplies : Discover(reply)
    \/ Parse
    \/ \E reply \in DecisionReplies : Decide(reply)
    \/ Act
    \/ GiveUp

Spec == Init /\ [][Next]_vars

\* A step of run itself, lines 249-314: run is one thread of straight-line
\* code, so while it is under way it takes its next step.
Step ==
    \/ \E img \in Captures : TakeScreenshot(img)
    \/ Exhausted
    \/ NoScreenshot
    \/ \E reply \in DiscoveryReplies : Discover(reply)
    \/ Parse
    \/ \E reply \in DecisionReplies : Decide(reply)
    \/ Act
    \/ GiveUp

\* The loop when every call run makes returns; whether run is called again is
\* up to the caller.
FairSpec == Spec /\ WF_vars(Step)

(***************************************************************************)
(* parse_and_process_response called directly, as test_agent.py calls it.  *)
(***************************************************************************)
\* Normalized boxes a reply may carry: inside 0..1000, outside it, reversed.
BoxesInRange ==
    {<<100, 200, 300, 400>>, <<0, 175, 290, 580>>, <<0, 0, 1000, 1000>>,
     <<350, 700, 575, 1000>>, <<500, 500, 500, 500>>, <<1, 999, 570, 999>>}
BoxesOutOfRange ==
    {<<-5, 10, 20, 30>>, <<10, -175, 20, 30>>, <<10, 10, 1500, 1200>>}
BoxesReversed ==
    {<<300, 400, 100, 200>>, <<300, 200, 100, 400>>}
BoxesUnderTest == BoxesInRange \cup BoxesOutOfRange \cup BoxesReversed

\* A discovery reply of one button with the box b.
BoxText(b) == dumps(Elements(<<Element("A", "button", Box(b))>>))

\* Replies whose JSON is not what the discovery prompt asks for.
OddValues ==
    {JList(<<JNum(1)>>), JStr("x"), JNum(5), JNull, JObj(<<>>, <<>>),
     JObj(<<"other">>, <<JNum(1)>>),
     JObj(<<"elements">>, <<JNum(5)>>),
     JObj(<<"elements">>, <<JNull>>),
     JObj(<<"elements">>, <<JStr("ab")>>),
     JObj(<<"elements">>, <<JStr("")>>),
     JObj(<<"elements">>, <<JObj(<<"a">>, <<JNum(1)>>)>>),
     Elements(<<JNum(1)>>),
     Elements(<<ElemA, JStr("x")>>),
     Elements(<<Element("A", "button",
                        JList(<<JStr("a"), JStr("b"), JStr("c"), JStr("d")>>))>>),
     Elements(<<Element("A", "button", JStr("abcd"))>>),
     Elements(<<Element("A", "button", JNum(5))>>),
     Elements(<<Element("A", "button", JList(<<JNum(1), JNum(2), JNum(3)>>))>>),
     Elements(<<Element("A", "button", JNull)>>),
     Elements(<<ElemA, ElemD, ElemB>>),
     Elements(<<>>)}

\* Replies of the shape the discovery prompt asks for (lines 162-171), with
\* labels that repeat, a type the agent does not know and a record twice.
WellFormed ==
    {Elements(<<ElemA, ElemB, ElemA2, ElemC>>), Elements(<<ElemA, ElemA>>),
     Elements(<<ElemC, ElemB>>)}

\* The texts parse_and_process_response is called with.
ParseTexts ==
    {<<>>, Malformed, Fenced(BoxText(<<100, 200, 300, 400>>)),
     Fenced(Malformed), <<FF>> \o BoxText(<<100, 200, 300, 400>>),
     BoxText(<<100, 200, 300, 400>>) \o <<WS, FF>>,
     Fenced(<<FF>> \o BoxText(<<100, 200, 300, 400>>))}
    \cup {dumps(v) : v \in OddValues \cup WellFormed}
    \cup {BoxText(b) : b \in BoxesUnderTest}

ParseArgs ==
    {[text |-> t, elements |-> None, screen_size |-> size, response |-> NoResponse] :
        t \in ParseTexts, size \in Screens}

InitParse ==
    /\ InitAgent
    /\ args \in ParseArgs
    /\ screen = args.screen_size
    /\ ret = NoRet
    /\ pc = "call parse"

\* agent.parse_and_process_response(text, screen_size) runs to its end.
CallParse ==
    /\ pc = "call parse"
    /\ ret' = parse_and_process_response(args.text, args.screen_size)
    /\ pc' = "parse ended"
    /\ UNCHANGED <<agent, screen, locals, exit, ghost, args>>

NextParse == CallParse

SpecParse == InitParse /\ [][NextParse]_vars

(***************************************************************************)
(* decide_next_action called directly, the model's reply being given.      *)
(***************************************************************************)
\* What the decision reply may decode to.
DecisionValues ==
    {JObj(<<>>, <<>>), JList(<<>>), JStr(""), JNull, JNum(0), JBool(FALSE),
     JList(<<JNum(1)>>), JStr("x"), JNum(5), JBool(TRUE),
     JObj(<<"thought">>, <<JStr("t")>>),
     Decision("t", JStr("A")), Decision("t", JStr("B")),
     Decision("t", JStr("a")), Decision("t", JStr("A ")),
     Decision("t", JStr("Z")), Decision("t", JNull)}

\* The replies ask_gemini_text_only may return.
DecideResponses ==
    {NoResponse, Response(<<>>), Response(Malformed),
     Response(Fenced(dumps(Decision("t", JStr("A"))))),
     Response(Fenced(dumps(JObj(<<>>, <<>>))))}
    \cup {Response(dumps(v)) : v \in DecisionValues}

\* The candidate lists decide_next_action is called with.
Candidates ==
    {JList(<<ElemA, ElemB, ElemA2>>), JList(<<ElemC, ElemD, ElemE>>),
     JList(<<ElemB, ElemA2, ElemC, ElemA>>),
     JList(<<JNum(1)>>), JList(<<ElemB, JStr("x")>>)}

DecideArgs ==
    {[text |-> <<>>, elements |-> c, screen_size |-> <<0, 0>>, response |-> r] :
        c \in Candidates, r \in DecideResponses}

InitDecide ==
    /\ InitAgent
    /\ args \in DecideArgs
    /\ screen \in Screens
    /\ ret = NoRet
    /\ pc = "call decide"

\* agent.decide_next_action(elements) runs to its end.
CallDecide ==
    /\ pc = "call decide"
    /\ ret' = decide_next_action(args.response, args.elements)
    /\ pc' = "decide ended"
    /\ UNCHANGED <<agent, screen, locals, exit, ghost, args>>

NextDecide == CallDecide

SpecDecide == InitDecide /\ [][NextDecide]_vars

(***************************************************************************)
(* perform_action called directly on an element.                           *)
(***************************************************************************)
\* The ends (min, max) of a pixel box along one axis: negative, equal, of an
\* odd and of an even sum, and one pair in the wrong order.
Spans == {<<-4, -1>>, <<-3, 2>>, <<0, 0>>, <<0, 1>>, <<200, 600>>, <<7, 7>>,
          <<9, 4>>}

\* An element as parse_and_process_response leaves it, with the pixel box of
\* the spans sx and sy.
Boxed(type, sx, sy) ==
    Put(Element("A", type, Box(<<0, 0, 0, 0>>)), "pixel_box",
        Box(<<sx[1], sy[1], sx[2], sy[2]>>))

\* The elements perform_action is called on, some without a pixel box.
ActElements ==
    {Boxed(type, sx, sy) :
        type \in {"button", "link", "input", "checkbox"},
        sx \in Spans, sy \in {<<-3, 2>>, <<0, 1>>, <<9, 4>>}}
    \cup {ElemA, ElemB, ElemD, ElemE}

ActArgs ==
    {[text |-> t, elements |-> e, screen_size |-> <<0, 0>>, response |-> NoResponse] :
        t \in {"", Placeholder}, e \in ActElements}

InitAct ==
    /\ InitAgent
    /\ args \in ActArgs
    /\ screen \in Screens
    /\ ret = NoRet
    /\ pc = "call act"

\* agent.perform_action(element, text_to_type) runs to its end.
CallAct ==
    /\ pc = "call act"
    /\ ret' = perform_action(args.elements, args.text)
    /\ pc' = "act ended"
    /\ UNCHANGED <<agent, screen, locals, exit, ghost, args>>

NextAct == CallAct

SpecAct == InitAct /\ [][NextAct]_vars

(***************************************************************************)
(* The claims of the specification about the loop, checked under Spec.     *)
(***************************************************************************)
\* An event that moves the mouse or presses keys.
IsInput(ev) == ev.op \in {"click", "typewrite"}
NoInput(evs) == \A j \in 1..Len(evs) : ~IsInput(evs[j])

\* What the decision reply of this iteration decodes to.
DecodedDecision == loads(CleanFence(response_text.text))

\* The decision reply decodes to a non-empty mapping whose chosen label is the
\* label of no element of the list discovery produced.
LabelOutOfList(d) ==
    /\ d.ok
    /\ d.val.k = "obj"
    /\ Truthy(d.val)
    /\ interactive_elements.k = "list"
    /\ interactive_elements.items # <<>>
    /\ \A j \in 1..Len(interactive_elements.items) :
           /\ interactive_elements.items[j].k = "obj"
           /\ ~PyEq(Get(interactive_elements.items[j], "label"),
                    Get(d.val, "chosen_element_label"))

UnresolvableDecision ==
    /\ pc \in {"decided", "returned"}
    /\ response_text.some
    /\ response_text.text # <<>>
    /\ LabelOutOfList(DecodedDecision)

\* C1 (budget): a run in which every iteration captured the screen, discovered
\* at least one element and had the decision step resolve an element has, when
\* it ends, printed "Maximum iterations reached", taken exactly max_iterations
\* screenshots and performed exactly max_iterations actions; and no run takes
\* more than max_iterations screenshots.
C1_BudgetExhausted ==
    /\ captures <= max_iterations
    /\ (Ended /\ resolved_all) =>
           /\ pc = "returned"
           /\ exit = MsgMaxIterations
           /\ captures = max_iterations
           /\ acted = max_iterations

\* C2 (unresolvable label): when discovery gave a non-empty list and the
\* decision names a label that no element of it has, the decision step returns
\* no element with the reason "Could not find the chosen element.", the run
\* ends in that iteration with "Gemini could not decide on an action", no click
\* or keystroke is issued in the iteration, and history is what it was when
\* the iteration began.
C2_UnresolvableEndsRun ==
    /\ [](UnresolvableDecision =>
            /\ chosen_element = None
            /\ thought = CouldNotFind
            /\ NoInput(events)
            /\ history = iter_history
            /\ pc = "returned" => exit = MsgNoDecision)
    /\ [][(UnresolvableDecision /\ pc = "decided") =>
            /\ pc' = "returned"
            /\ history' = history
            /\ events' = events]_vars

\* C2 witness: a run that ended because the chosen label was in no element.
C2_Witness ==
    /\ UnresolvableDecision
    /\ pc = "returned"
    /\ exit = MsgNoDecision

\* C3 (Done is not Aborted): a run that ends because the decision reply was an
\* empty structured result ends with a reported cause other than the one it
\* reports when the decision reply could not be decoded or was missing.
C3_DoneDistinctFromAborted ==
    (pc = "returned" /\ chosen_element = None /\ thought = ObjectiveAchieved)
        => exit # MsgNoDecision

(***************************************************************************)
(* The claims about decide_next_action, checked under SpecDecide.          *)
(***************************************************************************)
\* The direct call got a reply text and json.loads decoded it.
ReplyDecodes ==
    /\ args.response.some
    /\ args.response.text # <<>>
    /\ loads(CleanFence(args.response.text)).ok

\* What the reply of the direct call decodes to (when ReplyDecodes).
ReplyValue == loads(CleanFence(args.response.text)).val

\* A structured result that is empty or absent: {}, [], "" or null.
EmptyResult(v) ==
    v \in {JObj(<<>>, <<>>), JList(<<>>), JStr(""), JNull}

\* C4 (decision signals): decide_next_action returns (None, "Objective
\* achieved.") exactly when the reply decodes to an empty or absent structured
\* result, and (None, None) when there is no reply or it does not decode; so a
\* decoded decision that is not empty never yields the achieved signal.
C4_AchievedIffEmpty ==
    pc = "decide ended" =>
        /\ (ret = Pair(None, ObjectiveAchieved))
               <=> (ReplyDecodes /\ EmptyResult(ReplyValue))
        /\ ~ReplyDecodes => ret = Pair(None, None)

(***************************************************************************)
(* The claims about history and prompts, checked under Spec.               *)
(***************************************************************************)
\* h is an initial part of g.
IsPrefix(h, g) == Len(h) <= Len(g) /\ SubSeq(g, 1, Len(h)) = h

\* The prompt p carries every entry of h, in order, one per line.
Embeds(p, h) ==
    /\ Len(p.history_str) = 2 * Len(h) - 1
    /\ \A j \in 1..Len(h) : p.history_str[2 * j - 1] = h[j]
    /\ \A j \in 1..(Len(h) - 1) : p.history_str[2 * j] = NewLine

\* The model was asked op in the current iteration.
Asked(op) == \E j \in 1..Len(events) : events[j].op = op

\* C5 (append-only history): every step, of any run on the agent, leaves the
\* old history as an initial part of the new one; and the discovery and decision
\* prompts of an iteration carry the whole history of that moment, in order.
C5_HistoryAppendOnly ==
    /\ [][IsPrefix(history, history')]_vars
    /\ [](/\ Asked("ask_gemini_about_image") => Embeds(prompt, iter_history)
          /\ Asked("ask_gemini_text_only") => Embeds(dprompt, iter_history)
          /\ pc \in {"captured", "asked", "parsed", "decided"}
                 => history = iter_history)

\* C5 witness: in a second run on the agent, the decision prompt of the second
\* iteration carries both objectives and the first action.
C5_Witness ==
    /\ pc = "decided"
    /\ Len(history) = 3
    /\ history[2].kind = "objective"
    /\ history[3].kind \in {"Typing", "Clicking"}
    /\ Embeds(dprompt, history)

\* C6 (objective is entry 0): while a run is under way and when it has ended,
\* history[0] is the objective passed to that run, and so is the objective in
\* the prompts the run has built.
C6_ObjectiveIsEntryZero ==
    pc # "idle" =>
        /\ history[1] = ObjectiveEntry(user_prompt)
        /\ prompt # NoPrompt => prompt.objective = ObjectiveEntry(user_prompt)
        /\ dprompt # NoPrompt => dprompt.objective = ObjectiveEntry(user_prompt)

(***************************************************************************)
(* The claims about parse_and_process_response, checked under SpecParse.   *)
(***************************************************************************)
\* What the text of the direct call decodes to.
TextDecoded == loads(CleanFence(args.text))

\* json.loads fails on the text, or gives a mapping with no "elements" key.
NothingToParse(d) ==
    \/ ~d.ok
    \/ d.val.k = "obj" /\ ~HasKey(d.val, "elements")

\* C7 (the parser never raises): whatever the text, parse_and_process_response
\* returns a list to its caller, and the empty list when the text does not
\* decode or its mapping has no "elements".
C7_ParserNeverRaises ==
    pc = "parse ended" =>
        /\ ret.exc = ""
        /\ ret.val.k = "list"
        /\ NothingToParse(TextDecoded) => ret.val = JList(<<>>)

\* C8 (no crash in the decision step): whatever the reply and the candidate
\* list, decide_next_action returns one of its four outcomes, a resolved
\* element being one of the candidates, and (None, None) when the reply does
\* not decode.
C8_DecisionNeverRaises ==
    pc = "decide ended" =>
        /\ ret.exc = ""
        /\ \/ ret = Pair(None, None)
           \/ ret = Pair(None, ObjectiveAchieved)
           \/ ret = Pair(None, CouldNotFind)
           \/ \E j \in 1..Len(args.elements.items) :
                  ret.element = args.elements.items[j]
        /\ (args.response.some /\ args.response.text # <<>> /\ ~ReplyDecodes)
               => ret = Pair(None, None)

\* The pixel_box b holds four non-negative integers, the minima first.
WellFormedPixelBox(b) ==
    /\ b.k = "list"
    /\ Len(b.items) = 4
    /\ \A j \in 1..4 : b.items[j].k = "num" /\ b.items[j].n >= 0
    /\ b.items[1].n <= b.items[3].n
    /\ b.items[2].n <= b.items[4].n

\* C9 (pixel-box invariant): every returned element that has a pixel_box has
\* four non-negative pixel coordinates with x_min <= x_max and y_min <= y_max,
\* whatever numbers its box_2d held.
C9_PixelBoxWellFormed ==
    (pc = "parse ended" /\ ret.exc = "" /\ ret.val.k = "list") =>
        \A j \in 1..Len(ret.val.items) :
            (ret.val.items[j].k = "obj" /\ HasKey(ret.val.items[j], "pixel_box"))
                => WellFormedPixelBox(Get(ret.val.items[j], "pixel_box"))

\* floor(n * dimension / 1000) for n >= 0.
FloorScaled(n, dimension) == (n * dimension) \div 1000

\* The pixel box the specification gives the normalized box b on a screen.
FloorBox(b, size) ==
    Box(<<FloorScaled(b[1], size[1]), FloorScaled(b[2], size[2]),
          FloorScaled(b[3], size[1]), FloorScaled(b[4], size[2])>>)

\* C10 (coordinate conversion): for a box of coordinates in 0..1000 the pixel
\* box is floor(n * dimension / 1000) of each, x by the screen width and y by
\* the screen height; [100,200,300,400] on (2000,1000) gives [200,200,600,400].
C10_PixelIsFloor ==
    \A b \in BoxesInRange :
        (pc = "parse ended" /\ args.text = BoxText(b)) =>
            ret = Returns(JList(<<Put(Element("A", "button", Box(b)), "pixel_box",
                                      FloorBox(b, args.screen_size))>>))

\* A box_2d of four numbers.
ValidBox(b) ==
    /\ b.k = "list"
    /\ Len(b.items) = 4
    /\ \A j \in 1..4 : b.items[j].k = "num"

\* The text decodes to {"elements": [...]}, every record a mapping with a
\* box_2d of four numbers.
WellFormedDiscovery(d) ==
    /\ d.ok
    /\ d.val.k = "obj"
    /\ HasKey(d.val, "elements")
    /\ Get(d.val, "elements").k = "list"
    /\ \A j \in 1..Len(Get(d.val, "elements").items) :
           /\ Get(d.val, "elements").items[j].k = "obj"
           /\ ValidBox(Get(Get(d.val, "elements").items[j], "box_2d"))

\* The records of the decoded text.
Records == Get(TextDecoded.val, "elements").items

\* C11 (round trip): a well-formed discovery reply of N records, each with a
\* box_2d of four numbers, comes back as exactly N elements in the same order,
\* each with the label, type and box_2d it had and with a pixel_box; records
\* with the same label or an unknown type are neither dropped nor merged.
C11_RoundTrip ==
    (pc = "parse ended" /\ WellFormedDiscovery(TextDecoded)) =>
        /\ ret.exc = ""
        /\ ret.val.k = "list"
        /\ Len(ret.val.items) = Len(Records)
        /\ \A j \in 1..Len(Records) :
               /\ ret.val.items[j].k = "obj"
               /\ HasKey(ret.val.items[j], "pixel_box")
               /\ \A key \in {"label", "type", "box_2d"} :
                      Get(ret.val.items[j], key) = Get(Records[j], key)

\* C11 witness: four records came back, two of them labelled alike and one of
\* a type the agent does not know.
C11_Witness ==
    /\ pc = "parse ended"
    /\ WellFormedDiscovery(TextDecoded)
    /\ Len(Records) = 4
    /\ Len(ret.val.items) = 4
    /\ \E j, k \in 1..4 :
           j < k /\ Get(ret.val.items[j], "label") = Get(ret.val.items[k], "label")
    /\ \E j \in 1..4 : Get(ret.val.items[j], "type") = JStr("checkbox")

\* C12 (fencing tolerance): a text that does not itself begin with a code
\* fence is parsed to the same result as that text wrapped in a code fence
\* (white space, three backticks and json, white space, the text, white space,
\* three backticks, white space).
C12_FencingTolerance ==
    (pc = "parse ended" /\ ~startswith(strip(args.text), FencePrefix)) =>
        parse_and_process_response(Fenced(args.text), args.screen_size) = ret

\* The text decodes to {"elements": [...]}, every record a mapping.
ListOfRecords(d) ==
    /\ d.ok
    /\ d.val.k = "obj"
    /\ HasKey(d.val, "elements")
    /\ Get(d.val, "elements").k = "list"
    /\ \A j \in 1..Len(Get(d.val, "elements").items) :
           Get(d.val, "elements").items[j].k = "obj"

\* C13 (un-actionable elements are kept): of a reply that is a list of
\* records, every record comes back, in its place; one whose box_2d is missing
\* or is not four numbers comes back as it was, without a pixel_box, and the
\* others come back with a pixel_box.
C13_UnactionableKept ==
    (pc = "parse ended" /\ ListOfRecords(TextDecoded)) =>
        /\ ret.exc = ""
        /\ ret.val.k = "list"
        /\ Len(ret.val.items) = Len(Records)
        /\ \A j \in 1..Len(Records) :
               IF ValidBox(Get(Records[j], "box_2d"))
               THEN HasKey(ret.val.items[j], "pixel_box")
               ELSE /\ ret.val.items[j] = Records[j]
                    /\ ~HasKey(ret.val.items[j], "pixel_box")

(***************************************************************************)
(* The claims about the steps of an iteration, checked under Spec.         *)
(***************************************************************************)
\* The screenshot of this iteration gave no image.
CaptureUnusable == pc # "idle" /\ captures > 0 /\ screenshot # "image"

\* The discovery call of this iteration gave no text.
NoDiscoveryReply ==
    /\ Asked("ask_gemini_about_image")
    /\ ~gemini_response.some \/ gemini_response.text = <<>>

\* The discovery reply of this iteration was parsed to no element.
NoElementsParsed ==
    /\ Asked("parse_and_process_response")
    /\ pc # "raised"
    /\ ~Truthy(interactive_elements)

\* How often the model or the parser was called in this iteration.
Calls(op) == Cardinality({j \in 1..Len(events) : events[j].op = op})

\* C14 (a failed discovery phase aborts): an iteration whose screenshot gave
\* no image, whose discovery call gave no text or whose reply was parsed to no
\* element ends the run in that iteration with a printed cause; the failed call
\* is made once, the decision call is not made, no click or keystroke is
\* issued, and history is what it was when the iteration began.
C14_DiscoveryFailureAborts ==
    (CaptureUnusable \/ NoDiscoveryReply \/ NoElementsParsed) =>
        /\ pc \in {"captured", "returned"}
        /\ pc = "returned" =>
               exit \in {MsgNoScreenshot, MsgNoResponse, MsgNoElements}
        /\ CaptureUnusable => ~Asked("ask_gemini_about_image")
        /\ Calls("ask_gemini_about_image") <= 1
        /\ ~Asked("ask_gemini_text_only")
        /\ NoInput(events)
        /\ history = iter_history

\* The agent is in its first run: history holds one objective.
FirstRun ==
    /\ pc # "idle"
    /\ \A j \in 2..Len(history) : history[j].kind # "objective"

\* What a step of an iteration does to the length of history.
GrowsByOne ==
    /\ pc = "decided" =>
           Len(history') = Len(history) + (IF chosen_element # None THEN 1 ELSE 0)
    /\ pc \in {"loop", "captured", "asked", "parsed"} => history' = history

\* C15 (one history entry per Acting): the step that follows a decision adds
\* exactly one entry to history when the decision resolved to an element and
\* none when it did not, and no step of the iteration before it adds any; so
\* in the first run on an agent history holds 1 + acted entries, at most
\* 1 + max_iterations, and entry k (k >= 1) is the action of iteration k.
C15_OneEntryPerActing ==
    /\ [][GrowsByOne]_vars
    /\ [](FirstRun =>
            /\ Len(history) = 1 + acted
            /\ acted <= max_iterations
            /\ \A j \in 1..acted :
                   /\ history[j + 1].kind \in {"Typing", "Clicking"}
                   /\ history[j + 1].iter = j)

\* The iteration has recorded its action and called perform_action.
ActedNow ==
    /\ pc \in {"loop", "raised"}
    /\ Len(history) = Len(iter_history) + 1

\* A click was issued in this iteration, and a keystroke right after it.
Clicked == \E j \in 1..Len(events) : events[j].op = "click"
ClickedAndTyped ==
    \E j \in 1..(Len(events) - 1) :
        events[j].op = "click" /\ events[j + 1] = Typewrite

\* C16 (history describes the action performed): once an iteration has
\* recorded and performed its action, an entry "Clicking Y" stands in history
\* only if a click was issued in the iteration, and an entry "Typing X into Y"
\* only if a click and then the typing were issued.
C16_HistoryMatchesAction ==
    ActedNow =>
        /\ history[Len(history)].kind = "Clicking" => Clicked
        /\ history[Len(history)].kind = "Typing" => ClickedAndTyped

\* The clicks and keystrokes of this iteration, in the order issued.
Inputs == SelectSeq(events, IsInput)

\* The click is at the integer centre of the pixel box b of four numbers.
AtCentre(ev, b) ==
    (b.k = "list" /\ Len(b.items) = 4 /\ \A j \in 1..4 : b.items[j].k = "num") =>
        /\ ev.x = (b.items[1].n + b.items[3].n) \div 2
        /\ ev.y = (b.items[2].n + b.items[4].n) \div 2

\* The element e has the kind t.
OfKind(e, t) == Get(e, "type") = JStr(t)

\* C17 (action by kind): once an iteration has acted on its chosen element, a
\* button or link that has a pixel box got exactly one click, at the integer
\* centre of the box, and no typing; an input that has a pixel box got one
\* click at the centre and then the typing; an element of any other kind got
\* neither, and the run is back at the head of the loop for the next capture.
C17_ActionByKind ==
    ActedNow =>
        /\ (/\ OfKind(chosen_element, "button") \/ OfKind(chosen_element, "link")
            /\ HasKey(chosen_element, "pixel_box")) =>
                /\ Len(Inputs) = 1
                /\ Inputs[1].op = "click"
                /\ AtCentre(Inputs[1], Get(chosen_element, "pixel_box"))
        /\ (OfKind(chosen_element, "input") /\ HasKey(chosen_element, "pixel_box")) =>
                /\ Len(Inputs) = 2
                /\ Inputs[1].op = "click"
                /\ AtCentre(Inputs[1], Get(chosen_element, "pixel_box"))
                /\ Inputs[2] = Typewrite
        /\ (\A t \in {"button", "link", "input"} : ~OfKind(chosen_element, t)) =>
                /\ Inputs = <<>>
                /\ pc = "loop"

(***************************************************************************)
(* The claim about the lookup by label, checked under SpecDecide.          *)
(***************************************************************************)
\* The candidate list is a list of records.
AllRecords(c) ==
    c.k = "list" /\ \A j \in 1..Len(c.items) : c.items[j].k = "obj"

\* The places in the candidate list of the elements that carry exactly the
\* chosen label.
Matches ==
    {j \in 1..Len(args.elements.items) :
        Get(args.elements.items[j], "label")
            = Get(ReplyValue, "chosen_element_label")}

\* C18 (first match wins): when the reply decodes to a non-empty mapping and
\* the candidates are records, decide_next_action returns the candidate of the
\* smallest index whose label is exactly the chosen label, with the thought of
\* the reply; and when no label is exactly the chosen one, one that differs in
\* case or white space included, it returns no element and "Could not find the
\* chosen element."
C18_FirstMatchWins ==
    (/\ pc = "decide ended"
     /\ ReplyDecodes
     /\ ReplyValue.k = "obj"
     /\ Truthy(ReplyValue)
     /\ AllRecords(args.elements)) =>
        IF Matches = {}
        THEN ret = Pair(None, CouldNotFind)
        ELSE \E j \in Matches :
                 /\ \A m \in Matches : j <= m
                 /\ ret = Pair(args.elements.items[j], Get(ReplyValue, "thought"))

\* C18 witness: two candidates carry the chosen label, neither is the first of
\* the list, and the earlier of the two was returned.
C18_Witness ==
    /\ pc = "decide ended"
    /\ ReplyDecodes
    /\ ReplyValue.k = "obj"
    /\ AllRecords(args.elements)
    /\ Cardinality(Matches) = 2
    /\ 1 \notin Matches
    /\ \E j \in Matches : ret.element = args.elements.items[j]
    /\ \E j \in Matches : ret.element # args.elements.items[j]

(***************************************************************************)
(* The claims about the order of an iteration, checked under Spec.         *)
(***************************************************************************)
\* The place of an event in an iteration: capture, discovery call, parse,
\* decision call, click, typing, the pause after the action.
Rank(ev) ==
    CASE ev.op = "screenshot" -> 1
      [] ev.op = "ask_gemini_about_image" -> 2
      [] ev.op = "parse_and_process_response" -> 3
      [] ev.op = "ask_gemini_text_only" -> 4
      [] ev.op = "click" -> 5
      [] ev.op = "typewrite" -> 6
      [] ev = Sleep(2) -> 7
      [] OTHER -> 0

\* Every step before the place r has been taken, in order, none twice.
StepsUpTo(evs, r) ==
    \A q \in 1..r : q <= Len(evs) /\ Rank(evs[q]) = q

\* The events of an iteration that has begun: the capture first, then each
\* step only after all the steps before it, the action only after the decision
\* call, the typing only right after the click, the pause last.
Sequential(evs) ==
    /\ evs # <<>>
    /\ Rank(evs[1]) = 1
    /\ \A j \in 1..(Len(evs) - 1) : Rank(evs[j]) < Rank(evs[j + 1])
    /\ \A j \in 1..Len(evs) :
           /\ Rank(evs[j]) \in 1..4 => Rank(evs[j]) = j
           /\ Rank(evs[j]) \in 5..7 => StepsUpTo(evs, 4)
           /\ Rank(evs[j]) = 6 => Rank(evs[j - 1]) = 5
           /\ Rank(evs[j]) = 7 => j = Len(evs)

\* The next capture begins only when the iteration before it has called
\* perform_action and paused.
CaptureAfterPause ==
    (captures > 0 /\ captures' = captures + 1) =>
        /\ Sequential(events)
        /\ events[Len(events)] = Sleep(2)
        /\ acted = captures

\* C19 (iterations are sequential): the events of an iteration occur in the
\* order capture, discovery call, parse, decision call, action (one click, or
\* one click and the typing, or nothing), pause; so an iteration makes at most
\* two model calls and one action; and the capture of the next iteration
\* begins only after the action and the pause of this one.
C19_Sequential ==
    /\ []((pc # "idle" /\ captures > 0) =>
            /\ Sequential(events)
            /\ Calls("ask_gemini_about_image") + Calls("ask_gemini_text_only") <= 2
            /\ Calls("click") <= 1
            /\ acted <= captures)
    /\ [][CaptureAfterPause]_vars

\* C19 witness: the second iteration of a run has run through all its steps:
\* capture, both model calls, a click, the typing and the pause.
C19_Witness ==
    /\ pc = "loop"
    /\ captures = 2
    /\ acted = 2
    /\ Len(events) = 7
    /\ StepsUpTo(events, 4)
    /\ Rank(events[5]) = 5
    /\ Rank(events[6]) = 6
    /\ events[7] = Sleep(2)

\* The records in the discovery reply of this iteration.
DiscoveredNow ==
    Get(loads(CleanFence(gemini_response.text)).val, "elements")

\* The elements els are the records recs, one for one and in their order,
\* each with the label, type and box_2d of its record.
ElementsOf(els, recs) ==
    /\ els.k = "list"
    /\ recs.k = "list"
    /\ Len(els.items) = Len(recs.items)
    /\ \A j \in 1..Len(recs.items) :
           \A key \in {"label", "type", "box_2d"} :
               Get(els.items[j], key) = Get(recs.items[j], key)

\* The element e is one of the list v.
MemberOf(e, v) ==
    v.k = "list" /\ \E j \in 1..Len(v.items) : v.items[j] = e

\* C20 (an iteration works on its own elements): once the decision call of an
\* iteration is made, the list the run holds is the list of the records of the
\* discovery reply of that iteration, the decision prompt lists exactly that
\* list, and an element chosen, the only one clicked or typed into, is a
\* member of it.
C20_CurrentElementsOnly ==
    (pc # "idle" /\ Asked("ask_gemini_text_only")) =>
        /\ Asked("ask_gemini_about_image")
        /\ ElementsOf(interactive_elements, DiscoveredNow)
        /\ dprompt.elements = interactive_elements
        /\ (pc = "decided" /\ chosen_element # None) =>
               MemberOf(chosen_element, interactive_elements)
        /\ Inputs # <<>> =>
               /\ MemberOf(chosen_element, interactive_elements)
               /\ AtCentre(Inputs[1], Get(chosen_element, "pixel_box"))

\* C20 witness: the second iteration clicked an element of its own list, its
\* decision prompt listed that list, and the element the first iteration
\* acted on is not in it.
C20_Witness ==
    /\ pc = "loop"
    /\ captures = 2
    /\ acted = 2
    /\ Clicked
    /\ ElementsOf(interactive_elements, DiscoveredNow)
    /\ MemberOf(chosen_element, interactive_elements)
    /\ dprompt.elements = interactive_elements
    /\ \A j \in 1..Len(interactive_elements.items) :
           Get(interactive_elements.items[j], "label")
               # history[Len(history) - 1].label

(***************************************************************************)
(* The claim about termination, checked under FairSpec.                    *)
(***************************************************************************)
\* run has returned after printing one of its five closing messages.
Terminal ==
    /\ pc = "returned"
    /\ exit \in {MsgNoScreenshot, MsgNoResponse, MsgNoElements, MsgNoDecision,
                 MsgMaxIterations}

\* After run has ended, the only thing that happens is a new call of run.
OnlyNewRun ==
    Ended =>
        /\ pc' = "loop"
        /\ captures' = 0
        /\ acted' = 0
        /\ events' = <<Sleep(5)>>
        /\ Len(history') = Len(history) + 1
        /\ history'[Len(history')].kind = "objective"

\* C21 (termination): every call of run comes to an end in which run has
\* returned with one of its closing messages (achieved or aborted, or budget
\* exhausted), after at most max_iterations iterations; and once it has ended
\* no capture, model call, action or history entry of that run follows.
C21_Termination ==
    /\ [](pc = "loop" => <>Terminal)
    /\ [](i <= max_iterations /\ captures <= max_iterations)
    /\ [](Ended => Terminal)
    /\ [][OnlyNewRun]_vars

(***************************************************************************)
(* The claim about the click point, checked under SpecAct.                 *)
(***************************************************************************)
\* The pixel box of the element of the direct call.
ArgBox == Get(args.elements, "pixel_box").items

\* The element has a pixel box with x_min <= x_max and y_min <= y_max.
OrderedBox ==
    /\ HasKey(args.elements, "pixel_box")
    /\ ArgBox[1].n <= ArgBox[3].n
    /\ ArgBox[2].n <= ArgBox[4].n

\* The event is no click, or a click inside the pixel box of the element.
InsideBox(ev) ==
    ev.op = "click" =>
        /\ ArgBox[1].n <= ev.x /\ ev.x <= ArgBox[3].n
        /\ ArgBox[2].n <= ev.y /\ ev.y <= ArgBox[4].n

\* C22 (the click point lies inside the box): for an element whose pixel box
\* has x_min <= x_max and y_min <= y_max, perform_action returns, a button, a
\* link or an input is clicked, and every click is at a point (cx, cy) with
\* x_min <= cx <= x_max and y_min <= cy <= y_max; for an element without a
\* pixel box perform_action issues no click and no keystroke.
C22_ClickInsideBox ==
    pc = "act ended" =>
        /\ ~HasKey(args.elements, "pixel_box") => ret = Did("", <<>>)
        /\ OrderedBox =>
               /\ ret.exc = ""
               /\ (\E t \in {"button", "link", "input"} : OfKind(args.elements, t))
                      => \E j \in 1..Len(ret.events) : ret.events[j].op = "click"
               /\ \A j \in 1..Len(ret.events) : InsideBox(ret.events[j])

\* C22 witness: a click was issued for a box whose ends are negative and
\* positive with an odd sum along x, at the floor of the half sum.
C22_Witness ==
    /\ pc = "act ended"
    /\ OrderedBox
    /\ ArgBox[1].n = -3
    /\ ArgBox[3].n = 2
    /\ ret.events # <<>>
    /\ ret.events[1].op = "click"
    /\ ret.events[1].x = -1

====
